---- MODULE Spec2Model ----
(***************************************************************************)
(* Model of src/gui.py: the Streamlit synthesizer script.                  *)
(*                                                                         *)
(* One script run executes the module-level statements top to bottom:      *)
(* generate_waveform, apply_filter, the 16-bit conversion, the embedded    *)
(* player, the download button, the save button and the plot.              *)
(*                                                                         *)
(* Numbers.  A float sample is an exact rational <<num, den>>, den > 0.    *)
(* An array is a record with an object identity (id), its length (len)     *)
(* and its elements at the indices of Idx.  Results of the numerical       *)
(* library routines that cannot be computed exactly are chosen from the    *)
(* set of results they can produce (lfilter: LfilterSamples; square at a   *)
(* sample lying exactly on a period boundary: either sign, as the rounded  *)
(* double-precision phase falls on either side of the comparison).         *)
(***************************************************************************)
EXTENDS Integers, Sequences, FiniteSets, TLC

\* ------------------------------------------------------------ constants
SAMPLE_RATE == 44100

DURATION == 1

\* the scale factor of the 16-bit conversion, np.int16(filtered_wave * 32767)
PCM_SCALE == 32767

\* the butter(5, ...) order
ORDER == 5

\* the ax.plot(t[:1000], filtered_wave[:1000]) slice
PLOT_SAMPLES == 1000

\* the ranges of the three sliders
FREQ_MIN == 100

FREQ_MAX == 2000

LOW_MIN == 100

LOW_MAX == 4000

HIGH_MIN == 500

HIGH_MAX == 5000

\* ------------------------------------------------------------ bounds
\* Sample indices whose elements the model carries: 0, 21, 42, ...  At
\* 1050 Hz a period is 42 samples, so 21 lies exactly on a half-period boundary
\* and 42 on a period boundary; at 100 Hz both lie inside the first half of a
\* period and at 2000 Hz inside the second half.
MaxProbe == 2

Idx == { 21 * k : k \in 0..MaxProbe }

\* Values the widgets of one run can hold (each a subset of the slider's
\* range that contains both of its ends).
WaveTypes == {"Sine", "Square", "Sawtooth"}
FilterTypes == {"low", "high", "band"}
FrequencyValues == {FREQ_MIN, 1050, FREQ_MAX}
LowCutoffValues == {LOW_MIN, 2000, LOW_MAX}
HighCutoffValues == {HIGH_MIN, 2000, HIGH_MAX}

\* Arguments of a direct call of generate_waveform / apply_filter.
AnyWaveTypes == WaveTypes \cup {"Triangle"}
AnyFilterTypes == FilterTypes \cup {"None", "notch"}
AnyFrequencies == {0, 100, 350, 1050, 2000, 22050, 30000}
AnyCutoffs == {0, 100, 2000, 4000, 22050, 30000}

\* Samples lfilter can return: a 5th-order Butterworth low-pass of a square
\* wave overshoots to about 1.26, so values outside [-1, 1] are included.
LfilterSamples == {<<-5, 4>>, <<-1, 2>>, <<1, 2>>, <<5, 4>>}

\* ------------------------------------------------------------ arithmetic
\* num/den truncated toward zero (den > 0): a C cast of a double to an integer
Trunc(num, den) == IF num >= 0 THEN num \div den ELSE -((-num) \div den)

\* int(x) of the rational x
int(x) == Trunc(x[1], x[2])

Min(a, b) == IF a <= b THEN a ELSE b

\* ------------------------------------------------------------ values
NoneVal == [kind |-> "None", id |-> 0]

\* the module object bound by `import wave`
WaveModule == [kind |-> "module", id |-> 0]

ndarray(ident, dtype, n, elems) ==
    [kind |-> "ndarray", id |-> ident, dtype |-> dtype, len |-> n, at |-> elems]

\* ------------------------------------------------------------ generate_waveform
\* int(SAMPLE_RATE * DURATION), the num argument of np.linspace
NumSamples_inclusive == int(<<SAMPLE_RATE * DURATION, 1>>) + 1

NumSamples == int(<<SAMPLE_RATE * DURATION, 1>>)

\* np.linspace(0, DURATION, num, endpoint=False): num entries, t_i = i * DURATION / num
linspace(stop, num) == [len |-> num, at |-> [i \in Idx |-> <<i * stop, num>>]]

\* position of sample i in its period, in units of 1/SAMPLE_RATE of a period:
\* the phase 2*pi*frequency*t_i modulo 2*pi
Phase(frequency, i) == (frequency * i) % SAMPLE_RATE

\* scipy.signal.square(x) is +1 where x mod 2*pi < pi and -1 elsewhere.  The
\* phase is a rounded double: off the boundaries the rounding error is far
\* smaller than the distance to pi, at x = 0 the phase is exactly 0, and at a
\* sample that lies exactly on a half-period or period boundary the rounded
\* phase compares either way.
square_sign(frequency, i) ==
    LET p == Phase(frequency, i)
    IN  IF frequency * i = 0 THEN {<<0, 1>>}
        ELSE IF (2 * p) % SAMPLE_RATE = 0 THEN {<<0, 1>>}
        ELSE IF 2 * p < SAMPLE_RATE THEN {<<1, 1>>} ELSE {<<-1, 1>>}

square(frequency, i) ==
    LET p == Phase(frequency, i)
    IN  IF frequency * i = 0 THEN {<<1, 1>>}
        ELSE IF (2 * p) % SAMPLE_RATE = 0 THEN {<<1, 1>>, <<-1, 1>>}
        ELSE IF 2 * p < SAMPLE_RATE THEN {<<1, 1>>} ELSE {<<-1, 1>>}

\* scipy.signal.sawtooth(x): the ramp (x mod 2*pi) / pi - 1
sawtooth(frequency, i) == {<<2 * Phase(frequency, i) - SAMPLE_RATE, SAMPLE_RATE>>}

\* np.sin(x), to three decimals: the phase is taken in hundredths of a period
\* and the half wave is Bhaskara's rational approximation (exact at 0, 1/12,
\* 1/4, 5/12 and 1/2 of a period).
sin(frequency, i) ==
    LET c == (100 * Phase(frequency, i)) \div SAMPLE_RATE
        h == IF c < 50 THEN c ELSE c - 50
        q == h * (100 - 2 * h)
        v == (32000 * q) \div (50000 - 8 * q)
    IN  {<<IF c < 50 THEN v ELSE -v, 1000>>}

\* the samples a wave type's branch computes at index i
waveform_sample(wave_type, frequency, i) ==
    IF wave_type = "Sine" THEN sin(frequency, i)
    ELSE IF wave_type = "Square" THEN square(frequency, i)
    ELSE IF wave_type = "Sawtooth" THEN sawtooth(frequency, i)
    ELSE {<<0, 1>>}

\* generate_waveform(wave_type, frequency): the (t, wave) pairs it can return;
\* every branch computes one element per element of t
generate_waveform(wave_type, frequency, ident) ==
    LET lin == linspace(DURATION, NumSamples)
    IN  { [t |-> ndarray(ident, "float64", lin.len, lin.at),
           wave |-> ndarray(ident + 1, "float64", lin.len, w)] :
          w \in { f \in [Idx -> UNION { waveform_sample(wave_type, frequency, i) : i \in Idx }] :
                  \A i \in Idx : f[i] \in waveform_sample(wave_type, frequency, i) } }

\* ------------------------------------------------------------ apply_filter
\* nyquist = 0.5 * SAMPLE_RATE
nyquist_tenth == SAMPLE_RATE \div 20

nyquist == SAMPLE_RATE \div 2

\* cutoff / nyquist
normal(cutoff) == <<cutoff, nyquist>>

Less(x, y) == x[1] * y[2] < y[1] * x[2]

NoDesign == [called |-> FALSE, N |-> 0, Wn |-> <<>>, btype |-> "None", warned |-> FALSE]

\* the "low" branch: butter(5, low_cutoff / nyquist, btype='low')
low_design_high_cutoff(low_cutoff, high_cutoff) ==
    [called |-> TRUE, N |-> ORDER, Wn |-> <<normal(high_cutoff)>>, btype |-> "low",
     warned |-> FALSE]

low_design(low_cutoff, high_cutoff) ==
    [called |-> TRUE, N |-> ORDER, Wn |-> <<normal(low_cutoff)>>, btype |-> "low",
     warned |-> FALSE]

\* the "high" branch: butter(5, high_cutoff / nyquist, btype='high')
high_design(low_cutoff, high_cutoff) ==
    [called |-> TRUE, N |-> ORDER, Wn |-> <<normal(high_cutoff)>>, btype |-> "high",
     warned |-> FALSE]

\* the "band" branch: warn and swap when low_cutoff >= high_cutoff, then
\* butter(5, [low_normal, high_normal], btype='band')
band_design_no_swap(low_cutoff, high_cutoff) ==
    [called |-> TRUE, N |-> ORDER, Wn |-> <<normal(low_cutoff), normal(high_cutoff)>>,
     btype |-> "band", warned |-> low_cutoff >= high_cutoff]

band_design(low_cutoff, high_cutoff) ==
    LET swap == low_cutoff >= high_cutoff
        lo == IF swap THEN high_cutoff ELSE low_cutoff
        hi == IF swap THEN low_cutoff ELSE high_cutoff
    IN  [called |-> TRUE, N |-> ORDER, Wn |-> <<normal(lo), normal(hi)>>,
         btype |-> "band", warned |-> swap]

\* the branch of apply_filter that filter_type selects, as the butter call it
\* makes (called = FALSE: the else branch, which designs nothing)
design_always_low(low_cutoff, high_cutoff, filter_type) ==
    IF filter_type = "high" THEN high_design(low_cutoff, high_cutoff)
    ELSE IF filter_type = "band" THEN band_design(low_cutoff, high_cutoff)
    ELSE low_design(low_cutoff, high_cutoff)

design(low_cutoff, high_cutoff, filter_type) ==
    IF filter_type = "low" THEN low_design(low_cutoff, high_cutoff)
    ELSE IF filter_type = "high" THEN high_design(low_cutoff, high_cutoff)
    ELSE IF filter_type = "band" THEN band_design(low_cutoff, high_cutoff)
    ELSE NoDesign

\* scipy.signal.butter: a digital design needs every critical frequency
\* strictly inside (0, 1) and the two band edges strictly increasing; anything
\* else is a ValueError
butter(N, Wn, btype) ==
    IF /\ \A k \in 1..Len(Wn) : 0 < Wn[k][1] /\ Wn[k][1] < Wn[k][2]
       /\ Len(Wn) = 2 => Less(Wn[1], Wn[2])
    THEN "ok" ELSE "ValueError"

\* scipy.signal.lfilter(b, a, data): a new array as long as data; what the
\* coefficients make of the samples is not computed
lfilter(data, ident) ==
    { ndarray(ident, "float64", data.len, y) : y \in [Idx -> LfilterSamples] }

WARNING_MSG == "Low cutoff should be lower than high cutoff! Swapping values."

\* ------------------------------------------------------------ conversion, export
\* the cast of a float to int16: truncate toward zero, keep the low 16 bits
int16(x) == ((int(x) + 32768) % 65536) - 32768

\* ndarray.tobytes() of an int16 array: two bytes per sample, low byte first
tobytes(arr) ==
    [len |-> 2 * arr.len,
     at |-> [i \in Idx |-> <<(arr.at[i] % 65536) % 256, (arr.at[i] % 65536) \div 256>>]]

\* np.int16(filtered_wave * 32767)
quantize(arr, ident) ==
    ndarray(ident, "int16", arr.len,
            [i \in Idx |-> int16(<<arr.at[i][1] * PCM_SCALE, arr.at[i][2]>>)])

\* AudioSegment(wave_int16.tobytes(), frame_rate=SAMPLE_RATE, sample_width=2, channels=1)
AudioSegment(arr) ==
    [kind |-> "AudioSegment", id |-> arr.id, data |-> tobytes(arr),
     frame_rate |-> SAMPLE_RATE, sample_width |-> 2, channels |-> 1]

\* audio.export(format="wav"): the container around the segment's frames
export(a) ==
    [format |-> "wav", nchannels |-> a.channels, sampwidth |-> a.sample_width,
     framerate |-> a.frame_rate, frames |-> a.data, of |-> a.id]

\* arr[:n]
slice(arr, n) ==
    [id |-> arr.id, len |-> Min(n, arr.len),
     at |-> [i \in {j \in Idx : j < Min(n, arr.len)} |-> arr.at[i]]]

\* f"{wave_type}_{filter_type}_filtered.wav"
filename(wave_type, filter_type) == wave_type \o "_" \o filter_type \o "_filtered.wav"

\* ------------------------------------------------------------ state
VARIABLES
    pc,             \* the statement the run is at
    wave_type, frequency, filter_type, low_cutoff, high_cutoff,  \* widget values
    t, wave,        \* the globals t and wave (wave: the module, until line 59)
    filtered_wave, wave_int16, audio,
    butter_call,    \* the butter call apply_filter made
    warnings,       \* st.warning messages shown
    error,          \* the exception that ended the run
    calls,          \* generate_waveform / apply_filter calls of this run
    next_id,        \* next object identity
    pressed,        \* what st.button returned
    player, download, files, success, plot   \* what the sinks received

vars == <<pc, wave_type, frequency, filter_type, low_cutoff, high_cutoff, t, wave,
          filtered_wave, wave_int16, audio, butter_call, warnings, error, calls,
          next_id, pressed, player, download, files, success, plot>>

widgets == <<wave_type, frequency, filter_type, low_cutoff, high_cutoff>>

sinks == <<player, download, files, success, plot>>

\* ------------------------------------------------------------ one script run
\* The state a run starts in: the imports are done (wave is the module), no
\* statement below them has run, the widgets hold the user's values.
Start(wt, f, ft, lc, hc) ==
    /\ pc' = "generate"
    /\ wave_type' = wt /\ frequency' = f /\ filter_type' = ft
    /\ low_cutoff' = lc /\ high_cutoff' = hc
    /\ t' = NoneVal /\ wave' = WaveModule
    /\ filtered_wave' = NoneVal /\ wave_int16' = NoneVal /\ audio' = NoneVal
    /\ butter_call' = NoDesign /\ warnings' = <<>> /\ error' = "None"
    /\ calls' = <<>> /\ next_id' = 1 /\ pressed' = FALSE
    /\ player' = NoneVal /\ download' = NoneVal /\ success' = <<>> /\ plot' = NoneVal

Init ==
    /\ pc = "generate"
    /\ wave_type \in WaveTypes /\ frequency \in FrequencyValues
    /\ filter_type \in FilterTypes
    /\ low_cutoff \in LowCutoffValues /\ high_cutoff \in HighCutoffValues
    /\ t = NoneVal /\ wave = WaveModule
    /\ filtered_wave = NoneVal /\ wave_int16 = NoneVal /\ audio = NoneVal
    /\ butter_call = NoDesign /\ warnings = <<>> /\ error = "None"
    /\ calls = <<>> /\ next_id = 1 /\ pressed = FALSE
    /\ player = NoneVal /\ download = NoneVal /\ files = {} /\ success = <<>>
    /\ plot = NoneVal

\* the body of apply_filter(data, low_cutoff, high_cutoff, filter_type), with
\* the statement the caller goes on to when it returns
apply_filter(data, lc, hc, ft, return_pc) ==
    LET d == design(lc, hc, ft)
    IN  /\ butter_call' = d
        /\ warnings' = IF d.warned THEN Append(warnings, WARNING_MSG) ELSE warnings
        /\ IF ~d.called
           THEN /\ filtered_wave' = data
                /\ calls' = Append(calls, [fn |-> "apply_filter", data |-> data.id,
                                           ret |-> data.id])
                /\ pc' = return_pc
                /\ UNCHANGED <<error, next_id>>
           ELSE IF butter(d.N, d.Wn, d.btype) = "ok"
           THEN /\ \E y \in lfilter(data, next_id) : filtered_wave' = y
                /\ calls' = Append(calls, [fn |-> "apply_filter", data |-> data.id,
                                           ret |-> next_id])
                /\ next_id' = next_id + 1
                /\ pc' = return_pc
                /\ UNCHANGED error
           ELSE /\ error' = "ValueError"
                /\ calls' = Append(calls, [fn |-> "apply_filter", data |-> data.id,
                                           ret |-> 0])
                /\ pc' = "crashed"
                /\ UNCHANGED <<filtered_wave, next_id>>

\* line 59: t, wave = generate_waveform(wave_type, frequency)
Generate ==
    /\ pc = "generate"
    /\ \E r \in generate_waveform(wave_type, frequency, next_id) :
          /\ t' = r.t
          /\ wave' = r.wave
          /\ calls' = Append(calls, [fn |-> "generate_waveform", data |-> 0,
                                     ret |-> r.wave.id])
    /\ next_id' = next_id + 2
    /\ pc' = "filter"
    /\ UNCHANGED <<widgets, filtered_wave, wave_int16, audio, butter_call, warnings,
                   error, pressed, sinks>>

\* lines 62-65: filtered_wave = apply_filter(wave, low_cutoff, high_cutoff, ...)
Filter ==
    /\ pc = "filter"
    /\ IF filter_type = "band"
       THEN apply_filter(wave, low_cutoff, high_cutoff, "band", "quantize")
       ELSE apply_filter(wave, low_cutoff, high_cutoff, filter_type, "quantize")
    /\ UNCHANGED <<widgets, t, wave, wave_int16, audio, pressed, sinks>>

\* the array line 68 converts
pcm_source_raw == wave

pcm_source == filtered_wave

\* line 68: wave_int16 = np.int16(filtered_wave * 32767)
Quantize ==
    /\ pc = "quantize"
    /\ wave_int16' = quantize(pcm_source, next_id)
    /\ next_id' = next_id + 1
    /\ pc' = "segment"
    /\ UNCHANGED <<widgets, t, wave, filtered_wave, audio, butter_call, warnings,
                   error, calls, pressed, sinks>>

\* lines 69-74: audio = AudioSegment(wave_int16.tobytes(), ...)
Segment ==
    /\ pc = "segment"
    /\ audio' = AudioSegment(wave_int16)
    /\ pc' = "st_audio"
    /\ UNCHANGED <<widgets, t, wave, filtered_wave, wave_int16, butter_call, warnings,
                   error, calls, next_id, pressed, sinks>>

\* line 77: st.audio(audio.export(format="wav").read(), format="audio/wav")
StAudio ==
    /\ pc = "st_audio"
    /\ player' = [kind |-> "audio/wav", id |-> audio.id, data |-> export(audio)]
    /\ pc' = "download"
    /\ UNCHANGED <<widgets, t, wave, filtered_wave, wave_int16, audio, butter_call,
                   warnings, error, calls, next_id, pressed, download, files, success,
                   plot>>

\* lines 80-91: generate_download_link(audio)
generate_download_link ==
    /\ pc = "download"
    /\ download' = [kind |-> "audio/wav", id |-> audio.id, data |-> export(audio),
                    file_name |-> "synthesized_sound.wav"]
    /\ pc' = "button"
    /\ UNCHANGED <<widgets, t, wave, filtered_wave, wave_int16, audio, butter_call,
                   warnings, error, calls, next_id, pressed, player, files, success,
                   plot>>

\* lines 94-103, save_wave(): wave.open looks the global name wave up when the
\* function runs
save_wave ==
    IF wave.kind = "module"
    THEN /\ files' = files \cup { [name |-> filename(wave_type, filter_type),
                                   nchannels |-> 1, sampwidth |-> 2,
                                   framerate |-> SAMPLE_RATE,
                                   frames |-> tobytes(wave_int16),
                                   of |-> wave_int16.id] }
         /\ success' = Append(success, "Saved: " \o filename(wave_type, filter_type))
         /\ pc' = "plot"
         /\ UNCHANGED error
    ELSE /\ error' = "AttributeError"
         /\ pc' = "crashed"
         /\ UNCHANGED <<files, success>>

\* lines 106-107: if st.button("Save as WAV"): save_wave()
SaveButton ==
    /\ pc = "button"
    /\ \E b \in BOOLEAN :
          /\ pressed' = b
          /\ IF b THEN save_wave
                  ELSE pc' = "plot" /\ UNCHANGED <<error, files, success>>
    /\ UNCHANGED <<widgets, t, wave, filtered_wave, wave_int16, audio, butter_call,
                   warnings, calls, next_id, player, download, plot>>

\* lines 110-115: the plot of the first 1000 samples
Plot ==
    /\ pc = "plot"
    /\ plot' = [kind |-> "pyplot", id |-> filtered_wave.id,
                x |-> slice(t, PLOT_SAMPLES), y |-> slice(filtered_wave, PLOT_SAMPLES),
                title |-> wave_type \o " Wave (" \o filter_type \o "-pass)"]
    /\ pc' = "done"
    /\ UNCHANGED <<widgets, t, wave, filtered_wave, wave_int16, audio, butter_call,
                   warnings, error, calls, next_id, pressed, player, download, files,
                   success>>

\* The user changes one widget (or clicks a button): Streamlit runs the whole
\* script again from its first line; files written stay on disk.
Rerun ==
    /\ pc \in {"done", "crashed"}
    /\ \/ \E wt \in WaveTypes :
             Start(wt, frequency, filter_type, low_cutoff, high_cutoff)
       \/ \E f \in FrequencyValues :
             Start(wave_type, f, filter_type, low_cutoff, high_cutoff)
       \/ \E ft \in FilterTypes :
             Start(wave_type, frequency, ft, low_cutoff, high_cutoff)
       \/ \E lc \in LowCutoffValues :
             Start(wave_type, frequency, filter_type, lc, high_cutoff)
       \/ \E hc \in HighCutoffValues :
             Start(wave_type, frequency, filter_type, low_cutoff, hc)
    /\ UNCHANGED files

Next ==
    \/ Generate
    \/ Filter
    \/ Quantize
    \/ Segment
    \/ StAudio
    \/ generate_download_link
    \/ SaveButton
    \/ Plot
    \/ Rerun

Spec == Init /\ [][Next]_vars

\* ------------------------------------------------------------ direct calls
\* generate_waveform and apply_filter called as functions, with arguments
\* outside what the widgets offer as well.
InitCall ==
    /\ pc = "call_generate"
    /\ wave_type \in AnyWaveTypes /\ frequency \in AnyFrequencies
    /\ filter_type \in AnyFilterTypes
    /\ low_cutoff \in AnyCutoffs /\ high_cutoff \in AnyCutoffs
    /\ t = NoneVal /\ wave = WaveModule
    /\ filtered_wave = NoneVal /\ wave_int16 = NoneVal /\ audio = NoneVal
    /\ butter_call = NoDesign /\ warnings = <<>> /\ error = "None"
    /\ calls = <<>> /\ next_id = 1 /\ pressed = FALSE
    /\ player = NoneVal /\ download = NoneVal /\ files = {} /\ success = <<>>
    /\ plot = NoneVal

CallGenerate ==
    /\ pc = "call_generate"
    /\ \E r \in generate_waveform(wave_type, frequency, next_id) :
          /\ t' = r.t
          /\ wave' = r.wave
          /\ calls' = Append(calls, [fn |-> "generate_waveform", data |-> 0,
                                     ret |-> r.wave.id])
    /\ next_id' = next_id + 2
    /\ pc' = "call_filter"
    /\ UNCHANGED <<widgets, filtered_wave, wave_int16, audio, butter_call, warnings,
                   error, pressed, sinks>>

CallApplyFilter ==
    /\ pc = "call_filter"
    /\ apply_filter(wave, low_cutoff, high_cutoff, filter_type, "returned")
    /\ UNCHANGED <<widgets, t, wave, wave_int16, audio, pressed, sinks>>

NextCall ==
    \/ CallGenerate
    \/ CallApplyFilter

SpecCall == InitCall /\ [][NextCall]_vars

\* ------------------------------------------------------------ properties
Returned == pc \in {"returned", "crashed"}

AfterFilter == pc \notin {"generate", "filter"}

Abs(n) == IF n < 0 THEN -n ELSE n

Max(a, b) == IF a >= b THEN a ELSE b

Sign(n) == IF n > 0 THEN 1 ELSE IF n < 0 THEN -1 ELSE 0

\* clamp(s, -1, 1) of the rational s
Clamp(s) == IF s[1] > s[2] THEN <<1, 1>> ELSE IF s[1] < -s[2] THEN <<-1, 1>> ELSE s

\* round(x) of the rational x, halves away from zero
Round(x) == Sign(x[1]) * ((2 * Abs(x[1]) + x[2]) \div (2 * x[2]))

\* C1: a band-pass call with low_cutoff = high_cutoff shows the warning and
\* then completes with a buffer; it does not end in the design routine's
\* exception.
C1_EqualBandCompletes ==
    (AfterFilter /\ filter_type = "band" /\ low_cutoff = high_cutoff)
        => /\ warnings = <<WARNING_MSG>>
           /\ error # "ValueError"
           /\ filtered_wave.kind = "ndarray"

\* C2: every 16-bit sample is round(clamp(s, -1, 1) * 32767) of the filtered
\* sample s: inside [-32767, 32767] and of the sign of s.
C2_ClampedRoundedPCM ==
    wave_int16.kind = "ndarray"
        => \A i \in Idx :
              LET s == filtered_wave.at[i]
                  c == Clamp(s)
                  q == wave_int16.at[i]
              IN  /\ q = Round(<<c[1] * PCM_SCALE, c[2]>>)
                  /\ q >= -PCM_SCALE /\ q <= PCM_SCALE
                  /\ Sign(q) = Sign(s[1])

\* C3: once the save button has been pressed in a run, save_wave has written
\* "<shape>_<filter mode>_filtered.wav" as 1-channel 16-bit 44100 Hz PCM and
\* has reported success.
C3_SaveSucceeds ==
    (pressed /\ pc # "button")
        => /\ error = "None"
           /\ \E f \in files :
                 /\ f.name = filename(wave_type, filter_type)
                 /\ f.nchannels = 1 /\ f.sampwidth = 2 /\ f.framerate = 44100
                 /\ f.frames = tobytes(wave_int16)
           /\ success = <<"Saved: " \o filename(wave_type, filter_type)>>

\* C4: apply_filter with a filter_type other than "low", "high", "band"
\* returns its input (the same array, element for element), shows no warning
\* and raises nothing, whatever the cutoffs.
C4_OtherModeIsIdentity ==
    (Returned /\ filter_type \notin {"low", "high", "band"})
        => /\ pc = "returned"
           /\ filtered_wave = wave
           /\ \A i \in Idx : filtered_wave.at[i] = wave.at[i]
           /\ warnings = <<>>
           /\ error = "None"

C4_Witness ==
    /\ pc = "returned" /\ filter_type = "notch"
    /\ low_cutoff = 30000 /\ high_cutoff = 0
    /\ wave_type = "Square" /\ filtered_wave.kind = "ndarray"

\* C5: in band mode with low_cutoff > high_cutoff the edges handed to butter
\* are (min, max) / nyquist, the lower strictly below the upper; with
\* low_cutoff < high_cutoff they are (low_cutoff, high_cutoff) / nyquist and
\* no warning is shown.
C5_BandEdges ==
    (Returned /\ filter_type = "band")
        => /\ low_cutoff > high_cutoff
              => /\ butter_call.Wn = << <<Min(low_cutoff, high_cutoff), 22050>>,
                                        <<Max(low_cutoff, high_cutoff), 22050>> >>
                 /\ Less(butter_call.Wn[1], butter_call.Wn[2])
           /\ low_cutoff < high_cutoff
              => /\ butter_call.Wn = << <<low_cutoff, 22050>>, <<high_cutoff, 22050>> >>
                 /\ warnings = <<>>

C5_Witness ==
    /\ pc = "returned" /\ filter_type = "band"
    /\ low_cutoff = 4000 /\ high_cutoff = 100
    /\ butter_call.Wn = << <<100, 22050>>, <<4000, 22050>> >>
    /\ warnings = <<WARNING_MSG>>

\* C6: generate_waveform returns a time axis and a buffer of exactly
\* floor(SAMPLE_RATE * DURATION) = 44100 entries each, for every wave type
\* (unrecognized ones too) and every frequency.
C6_Length ==
    pc # "call_generate"
        => /\ t.kind = "ndarray" /\ wave.kind = "ndarray"
           /\ t.len = 44100 /\ wave.len = 44100
           /\ t.len = (SAMPLE_RATE * DURATION) \div 1
           /\ \A i \in Idx : i < wave.len

C6_Witness ==
    /\ pc = "call_filter" /\ wave_type = "Triangle" /\ frequency = 30000
    /\ wave.len = 44100 /\ \A i \in Idx : wave.at[i] = <<0, 1>>

\* C7: every sample of a square wave is exactly +1 or -1, never 0 or a value
\* in between, at index 0 and on the period boundaries too; it is +1 at index
\* 0 and inside the first half of each period and -1 inside the second half.
C7_SquareValues ==
    (pc # "call_generate" /\ wave_type = "Square")
        => \A i \in Idx :
              LET p == (frequency * i) % 44100
              IN  /\ wave.at[i] \in {<<1, 1>>, <<-1, 1>>}
                  /\ i = 0 => wave.at[i] = <<1, 1>>
                  /\ (0 < 2 * p /\ 2 * p < 44100) => wave.at[i] = <<1, 1>>
                  /\ 2 * p > 44100 => wave.at[i] = <<-1, 1>>

C7_Witness ==
    /\ pc = "call_filter" /\ wave_type = "Square" /\ frequency = 1050
    /\ wave.at[0] = <<1, 1>> /\ wave.at[21] = <<-1, 1>> /\ wave.at[42] = <<1, 1>>

\* C8: the design has order 5 in every mode; in "low" mode its one cutoff is
\* low_cutoff / (SAMPLE_RATE / 2) whatever high_cutoff is, in "high" mode it
\* is high_cutoff / (SAMPLE_RATE / 2) whatever low_cutoff is.
C8_OrderAndCutoff ==
    Returned
        => /\ butter_call.called => butter_call.N = 5
           /\ filter_type = "low"
              => /\ butter_call.called /\ butter_call.btype = "low"
                 /\ butter_call.Wn = << <<low_cutoff, 22050>> >>
                 /\ \A hc \in AnyCutoffs : design(low_cutoff, hc, "low") = butter_call
           /\ filter_type = "high"
              => /\ butter_call.called /\ butter_call.btype = "high"
                 /\ butter_call.Wn = << <<high_cutoff, 22050>> >>
                 /\ \A lc \in AnyCutoffs : design(lc, high_cutoff, "high") = butter_call
           /\ filter_type = "band" => butter_call.called /\ butter_call.btype = "band"

C8_Witness ==
    /\ pc = "returned" /\ filter_type = "low"
    /\ low_cutoff = 2000 /\ high_cutoff = 30000
    /\ butter_call.N = 5 /\ filtered_wave.kind = "ndarray"

C10_CutoffsInUnitInterval ==
    AfterFilter
          => /\ butter_call.called
             /\ Len(butter_call.Wn) = (IF filter_type = "band" THEN 2 ELSE 1)
             /\ \A k \in 1..Len(butter_call.Wn) :
                   /\ butter_call.Wn[k][2] > 0
                   /\ 0 < butter_call.Wn[k][1]
                   /\ butter_call.Wn[k][1] < butter_call.Wn[k][2]

C10_Witness ==
    /\ AfterFilter /\ filter_type = "band"
    /\ low_cutoff = 4000 /\ high_cutoff = 5000
    /\ butter_call.Wn = << <<4000, 22050>>, <<5000, 22050>> >>

====
